---- MODULE Spec2Model ----
(***************************************************************************)
(* practice-buddy: the practice database (songs, measure_groups,           *)
(* practice_sessions) and the HTTP handlers of backend/app.py that write   *)
(* it and read it, with the next-measure scheduler of get_next_measure.    *)
(*                                                                         *)
(* Conventions.  Row ids are the AUTOINCREMENT ids, i.e. the position of   *)
(* the row in its table.  A payload field that is absent (None) or falsy   *)
(* is 0 for numbers and "" for strings: the handlers test them with `not`. *)
(* practiced_at is the position of the session in practice_sessions.       *)
(***************************************************************************)
EXTENDS Integers, Sequences, FiniteSets, TLC

\* ------------------------------------------------------------------ bounds
\* rows the API specification lets the three tables hold together
MaxRows == 3
\* largest measure number a request of the API specification names
MaxMeasure == 2
\* single measures of the song of the library specification
MaxBars == 9
\* practices the library specification allows after the in-order first pass
MaxExtra == 1
\* longest song of the learner specification (single measures)
MaxSongLen == 10
\* practices the learner of the learner specification makes
MaxPractices == 12
\* single measures of each song of the two-song specification
MaxShelfBars == 2
\* practices the two-song specification allows
MaxLogs == 2

VARIABLES songs, measure_groups, practice_sessions, resp

vars == <<songs, measure_groups, practice_sessions, resp>>

\* ------------------------------------------------------------ value sets
Ratings == {"easy", "medium", "hard", "snooze"}

RatingInputs == Ratings \cup {"", "expert"}

SourceFiles == {"", "a"}

NoResp ==
  [op |-> "none", song_id |-> 0, status |-> 0, measure |-> 0, has_stats |-> FALSE,
   category |-> "", best_rating |-> 0, practice_count |-> 0, last_practiced |-> 0,
   error |-> ""]

\* the error bodies of log_practice
RatingRequired == "rating required and must be one of easy/medium/hard/snooze"

IdsRequired == "song_id and measure_group_id required"

\* ------------------------------------------------------- small utilities
SetMax(S) == CHOOSE x \in S : \A y \in S : y <= x

SetMin(S) == CHOOSE x \in S : \A y \in S : x <= y

Min2(a, b) == IF a <= b THEN a ELSE b

RECURSIVE SortedSeq(_)
SortedSeq(S) ==
  IF S = {} THEN <<>>
  ELSE LET m == SetMin(S) IN <<m>> \o SortedSeq(S \ {m})

IsPrefix(s, t) == Len(s) <= Len(t) /\ SubSeq(t, 1, Len(s)) = s

\* --------------------------------------------------- get_next_measure
rating_scores(r) ==
  CASE r = "easy" -> 3
    [] r = "medium" -> 2
    [] r = "hard" -> 1
    [] r = "snooze" -> 0

SongExists(song_id) == song_id \in 1..Len(songs)

\* ids of the measure_groups rows of a song that start at measure m
GroupsAt(song_id, m) ==
  {i \in DOMAIN measure_groups :
     measure_groups[i].song_id = song_id /\ measure_groups[i].start_measure = m}

\* GROUP BY mg.start_measure: one result row per distinct start of the song
StartMeasures(song_id) ==
  {measure_groups[i].start_measure :
     i \in {j \in DOMAIN measure_groups : measure_groups[j].song_id = song_id}}

\* LEFT JOIN practice_sessions ps ON mg.id = ps.measure_group_id, within one
\* GROUP BY row: the sessions logged against any group that starts at m
JoinedSessions(song_id, m) ==
  {j \in DOMAIN practice_sessions :
     LET id == practice_sessions[j].measure_group_id
     IN /\ id \in DOMAIN measure_groups
        /\ measure_groups[id].song_id = song_id
        /\ measure_groups[id].start_measure = m}

RowRatings(song_id, m) ==
  {practice_sessions[j].rating : j \in JoinedSessions(song_id, m)}

\* min in place of max
BestMin(song_id, m) ==
  IF RowRatings(song_id, m) = {} THEN 0
  ELSE SetMin({rating_scores(r) : r \in RowRatings(song_id, m)})

best_rating(song_id, m) ==
  SetMax({rating_scores(r) : r \in RowRatings(song_id, m)} \cup {0})

CategoryOf(best) ==
  IF best >= 3 THEN "proficient"
  ELSE IF best >= 2 THEN "challenging"
  ELSE "unlearned"

practice_count(song_id, m) == Cardinality(JoinedSessions(song_id, m))

last_practiced(song_id, m) == SetMax(JoinedSessions(song_id, m) \cup {0})

MeasureRow(song_id, m) ==
  [measure |-> m,
   category |-> CategoryOf(best_rating(song_id, m)),
   best_rating |-> best_rating(song_id, m),
   practice_count |-> practice_count(song_id, m),
   last_practiced |-> last_practiced(song_id, m)]

\* ORDER BY mg.start_measure: the start measure of the k-th result row
RowStart(song_id, k) ==
  CHOOSE m \in StartMeasures(song_id) :
    Cardinality({x \in StartMeasures(song_id) : x <= m}) = k

\* the list `measures`: one entry per result row, in the order of the rows
measures(song_id) ==
  LET row == [m \in StartMeasures(song_id) |-> MeasureRow(song_id, m)]
      n == Cardinality(StartMeasures(song_id))
  IN SubSeq([k \in 1..n |-> row[RowStart(song_id, k)]], 1, n)

is_measure_learned(m) == m.best_rating >= 2

InitialWindow == 5

WindowChunk == 3

\* the window computed from the list `ms` of the song's measures
WindowOf(ms) ==
  LET learned_count ==
        Cardinality({k \in 1..Min2(InitialWindow, Len(ms)) : is_measure_learned(ms[k])})
      grown ==
        IF Len(ms) > InitialWindow /\ learned_count = InitialWindow
        THEN InitialWindow + WindowChunk
        ELSE InitialWindow
  IN Min2(Len(ms), grown)

\* (the list is bound once, then the window is computed from it)
window_size(song_id) ==
  CHOOSE w \in {WindowOf(ms) : ms \in {measures(song_id)}} : TRUE

eligible_measures(song_id) ==
  CHOOSE e \in {SubSeq(ms, 1, WindowOf(ms)) : ms \in {measures(song_id)}} : TRUE

category_score(c) ==
  CASE c = "unlearned" -> 0
    [] c = "challenging" -> 1
    [] c = "proficient" -> 2

measure_priority(m) == <<category_score(m.category), m.practice_count, m.measure>>

\* tuple comparison of Python: lexicographic
PriorityLess(a, b) ==
  \/ a[1] < b[1]
  \/ a[1] = b[1] /\ a[2] < b[2]
  \/ a[1] = b[1] /\ a[2] = b[2] /\ a[3] < b[3]

\* min(eligible_measures, key=measure_priority): the first minimal element
MinByPriority(ms) ==
  LET k == CHOOSE i \in 1..Len(ms) :
             /\ \A j \in 1..Len(ms) :
                  ~PriorityLess(measure_priority(ms[j]), measure_priority(ms[i]))
             /\ \A j \in 1..(i - 1) :
                  PriorityLess(measure_priority(ms[i]), measure_priority(ms[j]))
  IN ms[k]

\* the handler without its "Song not found" return
NextMeasureResponseUnchecked(song_id) ==
  LET eligible == eligible_measures(song_id)
  IN IF eligible = <<>>
     THEN [NoResp EXCEPT !.op = "next_measure", !.song_id = song_id, !.status = 200,
                         !.measure = 1]
     ELSE LET next_measure == MinByPriority(eligible)
          IN [op |-> "next_measure", song_id |-> song_id, status |-> 200,
              measure |-> next_measure.measure, has_stats |-> TRUE,
              category |-> next_measure.category,
              best_rating |-> next_measure.best_rating,
              practice_count |-> next_measure.practice_count,
              last_practiced |-> next_measure.last_practiced, error |-> ""]

NextMeasureResponse(song_id) ==
  LET eligible == eligible_measures(song_id)
  IN IF ~SongExists(song_id)
     THEN [NoResp EXCEPT !.op = "next_measure", !.song_id = song_id, !.status = 404,
                         !.error = "Song not found"]
     ELSE IF eligible = <<>>
     THEN [NoResp EXCEPT !.op = "next_measure", !.song_id = song_id, !.status = 200,
                         !.measure = 1]
     ELSE LET next_measure == MinByPriority(eligible)
          IN [op |-> "next_measure", song_id |-> song_id, status |-> 200,
              measure |-> next_measure.measure, has_stats |-> TRUE,
              category |-> next_measure.category,
              best_rating |-> next_measure.best_rating,
              practice_count |-> next_measure.practice_count,
              last_practiced |-> next_measure.last_practiced, error |-> ""]

get_next_measure(song_id) ==
  /\ resp' = NextMeasureResponse(song_id)
  /\ UNCHANGED <<songs, measure_groups, practice_sessions>>

\* ------------------------------------------------------------ writers
create_song(title, source_file) ==
  IF title = ""
  THEN /\ resp' = [NoResp EXCEPT !.op = "create_song", !.status = 400,
                                 !.error = "title required"]
       /\ UNCHANGED <<songs, measure_groups, practice_sessions>>
  ELSE /\ songs' = Append(songs, source_file)
       /\ resp' = [NoResp EXCEPT !.op = "create_song", !.status = 201]
       /\ UNCHANGED <<measure_groups, practice_sessions>>

create_measure_group(song_id, start, end) ==
  IF song_id = 0 \/ start < 1 \/ end < start
  THEN /\ resp' = [NoResp EXCEPT !.op = "create_measure_group", !.status = 400,
                                 !.error = "invalid payload"]
       /\ UNCHANGED <<songs, measure_groups, practice_sessions>>
  ELSE /\ measure_groups' =
            Append(measure_groups,
                   [song_id |-> song_id, start_measure |-> start, end_measure |-> end])
       /\ resp' = [NoResp EXCEPT !.op = "create_measure_group", !.status = 201]
       /\ UNCHANGED <<songs, practice_sessions>>

\* SELECT * FROM songs WHERE source_file LIKE %base_candidate%
SongsLike(base_candidate) ==
  {s \in DOMAIN songs : songs[s] # "" /\ songs[s] = base_candidate}

\* SELECT * FROM measure_groups WHERE song_id = ? AND start <= ? AND end >= ?
GroupsContaining(song_id, measure) ==
  {i \in DOMAIN measure_groups :
     /\ measure_groups[i].song_id = song_id
     /\ measure_groups[i].start_measure <= measure
     /\ measure_groups[i].end_measure >= measure}

\* INSERT OR REPLACE keyed by the measure group: the new row overwrites the
\* group's earlier session
InsertOrReplaceSession(sessions, row) ==
  LET old == {j \in DOMAIN sessions : sessions[j].measure_group_id = row.measure_group_id}
  IN IF old = {} THEN Append(sessions, row)
     ELSE [sessions EXCEPT ![SetMin(old)] = row]

InsertSession(sessions, row) == Append(sessions, row)

\* the fallback mapping of log_practice; LIMIT 1 without ORDER BY may return
\* any matching row
ResolvedSongs(data) ==
  IF (data.song_id = 0 \/ data.measure_group_id = 0)
     /\ data.filename # "" /\ SongsLike(data.filename) # {}
  THEN SongsLike(data.filename)
  ELSE {data.song_id}

ResolvedGroups(data, song_id) ==
  IF (data.song_id = 0 \/ data.measure_group_id = 0)
     /\ song_id # 0 /\ data.measure # 0 /\ GroupsContaining(song_id, data.measure) # {}
  THEN GroupsContaining(song_id, data.measure)
  ELSE {data.measure_group_id}

\* the handler without the rating check of its first lines
log_practice_unvalidated(data) ==
  \E song_id \in ResolvedSongs(data) :
  \E measure_group_id \in ResolvedGroups(data, song_id) :
    IF song_id = 0 \/ measure_group_id = 0
    THEN /\ resp' = [NoResp EXCEPT !.op = "log_practice", !.status = 400,
                                   !.error = IdsRequired]
         /\ UNCHANGED <<songs, measure_groups, practice_sessions>>
    ELSE /\ practice_sessions' =
              InsertSession(practice_sessions,
                            [song_id |-> song_id,
                             measure_group_id |-> measure_group_id,
                             rating |-> data.rating])
         /\ resp' = [NoResp EXCEPT !.op = "log_practice", !.status = 201,
                                   !.song_id = song_id]
         /\ UNCHANGED <<songs, measure_groups>>

log_practice(data) ==
  IF data.rating \notin {"easy", "medium", "hard", "snooze"}
  THEN /\ resp' = [NoResp EXCEPT !.op = "log_practice", !.status = 400,
                                 !.error = RatingRequired]
       /\ UNCHANGED <<songs, measure_groups, practice_sessions>>
  ELSE \E song_id \in ResolvedSongs(data) :
       \E measure_group_id \in ResolvedGroups(data, song_id) :
         IF song_id = 0 \/ measure_group_id = 0
         THEN /\ resp' = [NoResp EXCEPT !.op = "log_practice", !.status = 400,
                                        !.error = IdsRequired]
              /\ UNCHANGED <<songs, measure_groups, practice_sessions>>
         ELSE /\ practice_sessions' =
                   InsertSession(practice_sessions,
                                 [song_id |-> song_id,
                                  measure_group_id |-> measure_group_id,
                                  rating |-> data.rating])
              /\ resp' = [NoResp EXCEPT !.op = "log_practice", !.status = 201,
                                        !.song_id = song_id]
              /\ UNCHANGED <<songs, measure_groups>>

clear_practice_sessions ==
  /\ practice_sessions' = <<>>
  /\ resp' = [NoResp EXCEPT !.op = "clear_practice_sessions", !.status = 200]
  /\ UNCHANGED <<songs, measure_groups>>

\* ------------------------------------------- requests (the environment)
Payload(rating, song_id, measure_group_id, filename, measure) ==
  [rating |-> rating, song_id |-> song_id, measure_group_id |-> measure_group_id,
   filename |-> filename, measure |-> measure]

\* The API driven from an empty database.
Init ==
  /\ songs = <<>>
  /\ measure_groups = <<>>
  /\ practice_sessions = <<>>
  /\ resp = NoResp

\* ids a request may name: every id in use and the next one, not yet in use
SongIdInputs == 1..(Len(songs) + 1)

GroupIdInputs == 1..(Len(measure_groups) + 1)

RowCount == Len(songs) + Len(measure_groups) + Len(practice_sessions)

CreateSong ==
  /\ RowCount < MaxRows
  /\ \E title \in {"", "t"}, source_file \in SourceFiles :
       create_song(title, source_file)

CreateMeasureGroup ==
  /\ RowCount < MaxRows
  /\ \E song_id \in {0} \cup SongIdInputs, start \in 0..MaxMeasure, end \in 0..MaxMeasure :
       create_measure_group(song_id, start, end)

\* every payload with both ids present, then the payloads that take the fallback
\* mapping (an id missing), then one payload per rejected rating
LogPractice ==
  /\ RowCount < MaxRows
  /\ \/ \E rating \in Ratings, song_id \in SongIdInputs, measure_group_id \in GroupIdInputs :
           log_practice(Payload(rating, song_id, measure_group_id, "", 0))
     \/ \E rating \in Ratings, song_id \in {0} \cup SongIdInputs,
            measure_group_id \in {0} \cup GroupIdInputs, filename \in SourceFiles,
            measure \in 0..MaxMeasure :
           /\ song_id = 0 \/ measure_group_id = 0
           /\ log_practice(Payload(rating, song_id, measure_group_id, filename, measure))
     \/ \E rating \in RatingInputs \ Ratings :
           log_practice(Payload(rating, 1, 1, "", 0))

ClearPracticeSessions == clear_practice_sessions

GetNextMeasure == \E song_id \in SongIdInputs : get_next_measure(song_id)

Next ==
  \/ CreateSong
  \/ CreateMeasureGroup
  \/ LogPractice
  \/ ClearPracticeSessions
  \/ GetNextMeasure

Spec == Init /\ [][Next]_vars

\* ------------------------------------------ a library written by init_db
\* scan_data_dir: the measure files of one song folder, sorted by start measure
\* and then singles before ranges; main() inserts them in that order.
LibraryCatalog(bars, ranges) ==
  LET key(f) == f[1] * 2 + (IF f[1] = f[2] THEN 0 ELSE 1)
      files == {<<n, n>> : n \in 1..bars} \cup ranges
      keys == SortedSeq({key(f) : f \in files})
  IN [k \in 1..Len(keys) |->
        LET f == CHOOSE g \in files : key(g) = keys[k]
        IN [song_id |-> 1, start_measure |-> f[1], end_measure |-> f[2]]]

\* folders scanned: a song of MaxBars bars, with or without the range file 2-3
RangeChoices == {{}, {<<2, 3>>}}

InitLibrary ==
  /\ songs = <<"a">>
  /\ \E ranges \in RangeChoices : measure_groups = LibraryCatalog(MaxBars, ranges)
  /\ practice_sessions = <<>>
  /\ resp = NoResp

\* id of the single-measure row of bar n of song 1 (0 when there is none)
SingleId(n) ==
  LET ids == {i \in DOMAIN measure_groups :
                /\ measure_groups[i].song_id = 1
                /\ measure_groups[i].start_measure = n
                /\ measure_groups[i].end_measure = n}
  IN IF ids = {} THEN 0 ELSE SetMin(ids)

\* the first pass of a learner: bars 1, 2, 3, ... each practiced once, rated easy
FirstPassRow(n) == [song_id |-> 1, measure_group_id |-> SingleId(n), rating |-> "easy"]

FirstPassLen(sessions) ==
  SetMax({p \in 0..Len(sessions) : \A i \in 1..p : sessions[i] = FirstPassRow(i)})

PracticeInOrder ==
  /\ FirstPassLen(practice_sessions) = Len(practice_sessions)
  /\ SingleId(Len(practice_sessions) + 1) # 0
  /\ log_practice(Payload("easy", 1, SingleId(Len(practice_sessions) + 1), "", 0))

\* any practice request, at most MaxExtra of them after the first pass
LogPracticeLibrary ==
  /\ Len(practice_sessions) - FirstPassLen(practice_sessions) < MaxExtra
  /\ \/ \E rating \in Ratings, song_id \in SongIdInputs, measure_group_id \in GroupIdInputs :
           log_practice(Payload(rating, song_id, measure_group_id, "", 0))
     \/ \E rating \in Ratings, song_id \in 0..1, measure_group_id \in 0..1,
            filename \in SourceFiles, measure \in 0..MaxMeasure :
           /\ song_id = 0 \/ measure_group_id = 0
           /\ log_practice(Payload(rating, song_id, measure_group_id, filename, measure))
     \/ \E rating \in RatingInputs \ Ratings :
           log_practice(Payload(rating, 1, 1, "", 0))

NextLibrary ==
  \/ PracticeInOrder
  \/ LogPracticeLibrary
  \/ ClearPracticeSessions
  \/ GetNextMeasure

SpecLibrary == InitLibrary /\ [][NextLibrary]_vars

\* --------------------------------- a learner who follows the recommendation
\* One song of single measures 1..n from init_db; the learner asks for the next
\* measure, practices the measure returned and rates it easy, and asks again.
InitLearner ==
  /\ songs = <<"a">>
  /\ \E n \in 1..MaxSongLen : measure_groups = LibraryCatalog(n, {})
  /\ practice_sessions = <<>>
  /\ resp = NoResp

LearnerAsks ==
  /\ resp.op # "next_measure"
  /\ get_next_measure(1)

LearnerPractices ==
  /\ resp.op = "next_measure" /\ resp.status = 200 /\ resp.has_stats
  /\ Len(practice_sessions) < MaxPractices
  /\ log_practice(Payload("easy", 1, SingleId(resp.measure), "", 0))

NextLearner ==
  \/ LearnerAsks
  \/ LearnerPractices

\* the learner keeps going: a step that is possible is eventually taken
SpecLearner == InitLearner /\ [][NextLearner]_vars /\ WF_vars(NextLearner)

\* ------------------------------------------ two songs written by init_db
\* Two song folders of single measures 1..MaxShelfBars each, and any practice
\* request that names ids in use.
InitTwoSongs ==
  /\ songs = <<"a", "b">>
  /\ measure_groups =
       LET first == LibraryCatalog(MaxShelfBars, {})
       IN first \o [k \in 1..Len(first) |-> [first[k] EXCEPT !.song_id = 2]]
  /\ practice_sessions = <<>>
  /\ resp = NoResp

LogPracticeTwoSongs ==
  /\ Len(practice_sessions) < MaxLogs
  /\ \/ \E rating \in Ratings, song_id \in DOMAIN songs,
            measure_group_id \in DOMAIN measure_groups :
           log_practice(Payload(rating, song_id, measure_group_id, "", 0))
     \/ \E rating \in Ratings, filename \in SourceFiles, measure \in 0..MaxMeasure :
           log_practice(Payload(rating, 0, 0, filename, measure))
     \/ \E rating \in RatingInputs \ Ratings :
           log_practice(Payload(rating, 1, 1, "", 0))

NextTwoSongs ==
  \/ LogPracticeTwoSongs
  \/ ClearPracticeSessions
  \/ GetNextMeasure

SpecTwoSongs == InitTwoSongs /\ [][NextTwoSongs]_vars

\* ------------------------------------------------- notions of the claims
\* the measure items of a song: its single measures and its multi-measure groups
Items(song_id) == {i \in DOMAIN measure_groups : measure_groups[i].song_id = song_id}

Singles(song_id) ==
  {i \in Items(song_id) : measure_groups[i].start_measure = measure_groups[i].end_measure}

MultiGroups(song_id) == Items(song_id) \ Singles(song_id)

\* the ratings logged against one item itself
OwnSessions(i) ==
  {j \in DOMAIN practice_sessions : practice_sessions[j].measure_group_id = i}

OwnBest(i) ==
  SetMax({rating_scores(practice_sessions[j].rating) : j \in OwnSessions(i)} \cup {0})

OwnCount(i) == Cardinality(OwnSessions(i))

\* the four-level table of the specification
CanonicalCategory(best) ==
  IF best >= 3 THEN "proficient"
  ELSE IF best >= 2 THEN "decent"
  ELSE IF best >= 1 THEN "needs_practice"
  ELSE "unlearned"

\* the last request was next_measure, answered with a recommendation or the default
Recommended == resp.op = "next_measure" /\ resp.status = 200

\* the song holds exactly the single measures 1..n, one item each
SinglesOnly(song_id, n) ==
  /\ MultiGroups(song_id) = {}
  /\ Cardinality(Singles(song_id)) = n
  /\ {measure_groups[i].start_measure : i \in Singles(song_id)} = 1..n

SingleAt(song_id, n) ==
  CHOOSE i \in Singles(song_id) : measure_groups[i].start_measure = n

\* measures 1..k each proficient, measure k+1 never practiced
ProficientPrefix(song_id, k) ==
  /\ \A j \in 1..k : OwnBest(SingleAt(song_id, j)) >= 3
  /\ OwnCount(SingleAt(song_id, k + 1)) = 0

\* ----------------------------------------------------------------- C1
\* C1: in a song of single measures 1..N, when measures 1..k (k < N) are each
\* proficient and measure k+1 has never been practiced, next_measure returns
\* measure k+1.
C1_ReturnsMeasureAfterProficientPrefix ==
  Recommended =>
    \A n \in 1..Cardinality(Items(resp.song_id)) :
      SinglesOnly(resp.song_id, n) =>
        \A k \in 1..(n - 1) :
          ProficientPrefix(resp.song_id, k) => resp.measure = k + 1

\* the scenario of the specification: measures 1..4 proficient, measure 5 returned
C1_Witness ==
  /\ Recommended
  /\ SinglesOnly(resp.song_id, MaxBars)
  /\ ProficientPrefix(resp.song_id, 4)
  /\ resp.measure = 5

\* ----------------------------------------------------------------- C2
\* C2: next_measure recommends a single measure with index k > 1 only if every
\* single measure with index below k is already proficient.
C2_NeverAheadOfUnmastered ==
  (Recommended /\ resp.has_stats /\ resp.measure > 1) =>
    \A i \in Singles(resp.song_id) :
      measure_groups[i].start_measure < resp.measure => OwnBest(i) >= 3

\* ----------------------------------------------------------------- C3
\* C3: when no single measure inside the learning window is non-proficient and
\* some group fully contained in the window is non-proficient, next_measure
\* returns such a group, with the category derived from the group's own ratings.
InWindowSingles(song_id) ==
  {i \in Singles(song_id) : measure_groups[i].start_measure <= window_size(song_id)}

InWindowGroups(song_id) ==
  {i \in MultiGroups(song_id) : measure_groups[i].end_measure <= window_size(song_id)}

C3_GroupTierAfterSingles ==
  LET open == {g \in InWindowGroups(resp.song_id) : OwnBest(g) < 3}
  IN (/\ Recommended
      /\ \A i \in InWindowSingles(resp.song_id) : OwnBest(i) >= 3
      /\ open # {})
     => \E g \in open :
          /\ resp.measure = measure_groups[g].start_measure
          /\ resp.category = CanonicalCategory(OwnBest(g))

\* ----------------------------------------------------------------- C4
\* C4: for an existing song with zero single measures (no measure groups, or
\* only multi-measure groups) next_measure returns the default {measure: 1}
\* with no stats, and not an error.
C4_NoSinglesGivesDefault ==
  (resp.op = "next_measure" /\ SongExists(resp.song_id) /\ Singles(resp.song_id) = {})
    => (resp.status = 200 /\ resp.measure = 1 /\ ~resp.has_stats)

\* ----------------------------------------------------------------- C5
\* C5: next_measure for a song id that is not a known song answers 404 and
\* returns no recommendation, whatever is stored under that id.
C5_UnknownSongNotFound ==
  (resp.op = "next_measure" /\ ~SongExists(resp.song_id))
    => (resp.status = 404 /\ resp.measure = 0 /\ ~resp.has_stats)

\* an unknown song id that has a measure group and a session of that group
C5_Witness ==
  /\ resp.op = "next_measure"
  /\ ~SongExists(resp.song_id)
  /\ resp.status = 404
  /\ \E i \in Items(resp.song_id) : \E j \in OwnSessions(i) :
       practice_sessions[j].song_id = resp.song_id

\* ----------------------------------------------------------------- C6
\* C6: the category reported for an item follows the four-level table of its
\* best_rating: 0 unlearned, 1 needs_practice, 2 decent, 3 proficient.
C6_CategoryFollowsFourLevelTable ==
  (Recommended /\ resp.has_stats) => resp.category = CanonicalCategory(resp.best_rating)

\* ----------------------------------------------------------------- C7
\* C7: the best_rating reported by next_measure for a measure item is the maximum
\* score among the ratings logged against that item itself (0 without ratings);
\* ratings logged against another item do not contribute.
C7_BestRatingIsOwnMaximum ==
  Recommended =>
    /\ resp.has_stats =>
         \A i \in GroupsAt(resp.song_id, resp.measure) : resp.best_rating = OwnBest(i)
    /\ \A m \in StartMeasures(resp.song_id) : \A i \in GroupsAt(resp.song_id, m) :
         best_rating(resp.song_id, m) = OwnBest(i)

\* ----------------------------------------------------------------- C8
\* C8: with the measure groups fixed, logging one more practice (any rating,
\* any item) never shrinks the learning window of any song.
C8_WindowNeverShrinksOnLog ==
  [][resp'.op = "log_practice" =>
       \A s \in SongIdInputs : window_size(s)' >= window_size(s)]_vars

\* the practice that completes the first five measures has just grown the window
C8_Witness ==
  /\ resp.op = "log_practice"
  /\ resp.status = 201
  /\ Len(practice_sessions) = InitialWindow
  /\ window_size(1) = InitialWindow + WindowChunk

\* ----------------------------------------------------------------- C9
\* C9: the learning window used by next_measure never exceeds the number of
\* single measures of the song, also when the song holds multi-measure groups.
C9_WindowWithinSingles ==
  Recommended => window_size(resp.song_id) <= Cardinality(Singles(resp.song_id))

\* ----------------------------------------------------------------- C10
\* every recorded rating is kept, and no item's practice_count, best_rating or
\* category rank decreases, from this state to the next (a step that leaves
\* both tables alone keeps them trivially)
HistoryKept ==
  \/ UNCHANGED <<measure_groups, practice_sessions>>
  \/ /\ IsPrefix(practice_sessions, practice_sessions')
     /\ \A i \in DOMAIN measure_groups :
          /\ OwnCount(i)' >= OwnCount(i)
          /\ OwnBest(i)' >= OwnBest(i)
     /\ \A s \in SongIdInputs : \A m \in StartMeasures(s) :
          /\ practice_count(s, m)' >= practice_count(s, m)
          /\ best_rating(s, m)' >= best_rating(s, m)
          /\ category_score(CategoryOf(best_rating(s, m)))'
               >= category_score(CategoryOf(best_rating(s, m)))

\* C10 (as stated): no operation removes or alters a recorded rating, so each
\* item's practice_count and best_rating never decrease.
C10_HistoryAppendOnly == [][HistoryKept]_vars

\* C10 (amended): every operation other than clear_practice_sessions keeps the
\* recorded ratings and never decreases an item's practice_count, best_rating or
\* category rank; clear_practice_sessions removes every recorded rating.
C10_HistoryKeptExceptClear ==
  [][IF resp'.op = "clear_practice_sessions"
     THEN practice_sessions' = <<>>
     ELSE HistoryKept]_vars

\* a practice has been appended to a history that already held one
C10_Witness ==
  /\ resp.op = "log_practice"
  /\ resp.status = 201
  /\ Len(practice_sessions) >= 2

\* ----------------------------------------------------------------- C11
\* C11: log_practice answers every request whose rating is not one of easy,
\* medium, hard, snooze (sent with both ids, with filename and measure instead,
\* or with neither) with an error and stores no practice session for it, so
\* every stored rating is one of the four symbols that next_measure scores.
C11_InvalidRatingRejected ==
  /\ [](\A j \in DOMAIN practice_sessions : practice_sessions[j].rating \in Ratings)
  /\ [][resp'.op = "log_practice" =>
          \A rating \in RatingInputs \ Ratings :
          \A data \in {Payload(rating, 1, 1, "", 0), Payload(rating, 0, 0, "a", 1),
                       Payload(rating, 0, 0, "", 0)} :
            log_practice(data) =>
              /\ resp'.status = 400
              /\ resp'.error = RatingRequired
              /\ UNCHANGED practice_sessions]_vars

\* a request with an unknown rating was refused while ratings are on record
C11_Witness ==
  /\ resp.op = "log_practice"
  /\ resp.status = 400
  /\ resp.error = RatingRequired
  /\ practice_sessions # <<>>

\* ----------------------------------------------------------------- C12
\* every single measure with index <= w and every group inside [1, w] is proficient
WindowMastered(song_id, w) ==
  /\ \A i \in Singles(song_id) :
       measure_groups[i].start_measure <= w => OwnBest(i) >= 3
  /\ \A g \in MultiGroups(song_id) :
       measure_groups[g].end_measure <= w => OwnBest(g) >= 3

\* the window of the specification: from 1, one more measure for as long as the
\* window is mastered, at most the number of single measures
PerMeasureWindow(song_id) ==
  LET n == Cardinality(Singles(song_id))
  IN SetMax({w \in 1..n : \A v \in 1..(w - 1) : WindowMastered(song_id, v)})

\* C12: the learning window starts at 1 and grows by exactly 1 while every single
\* measure and every contained group of the window is proficient, up to the
\* number of single measures; it is 1 when nothing has been practiced.
C12_WindowGrowsPerMeasure ==
  (Recommended /\ Singles(resp.song_id) # {}) =>
    window_size(resp.song_id) = PerMeasureWindow(resp.song_id)

\* ----------------------------------------------------------------- C13
\* every single measure of the window is proficient
WindowAllProficient(song_id) == \A i \in InWindowSingles(song_id) : OwnBest(i) >= 3

\* C13: for the learner who practices what next_measure returns and rates it
\* easy, the window keeps expanding until it covers the whole song: whenever a
\* recommendation is made with every measure of the window proficient, the
\* window holds every single measure of the song (otherwise the measures beyond
\* it can never be recommended).
C13_WindowCoversSongOnceMastered ==
  (Recommended /\ resp.has_stats /\ WindowAllProficient(resp.song_id)) =>
    window_size(resp.song_id) >= Cardinality(Singles(resp.song_id))

\* the learner is stuck: the window is mastered and leaves measures out
LearnerStuck ==
  /\ WindowAllProficient(1)
  /\ window_size(1) < Cardinality(Singles(1))

\* once stuck the learner stays stuck: no later step widens the window
C13_StuckForever == [][LearnerStuck => LearnerStuck']_vars

\* a stuck learner is recommended a measure that is already proficient
C13_Witness ==
  /\ Recommended /\ resp.has_stats
  /\ LearnerStuck
  /\ resp.category = "proficient"

\* ----------------------------------------------------------------- C14
\* rank of the four-level table: unlearned < needs_practice < decent < proficient
CanonicalRank(c) ==
  CASE c = "unlearned" -> 0
    [] c = "needs_practice" -> 1
    [] c = "decent" -> 2
    [] c = "proficient" -> 3

CanonicalPriority(best, count, measure) ==
  <<CanonicalRank(CanonicalCategory(best)), count, measure>>

\* C14: the item next_measure returns is the minimum of the eligible set under
\* (category rank of the four-level table, practice count, start index): no
\* eligible candidate has a strictly smaller tuple than the returned one.
C14_ReturnsLexicographicMinimum ==
  (Recommended /\ resp.has_stats) =>
    LET eligible == eligible_measures(resp.song_id)
    IN \A k \in DOMAIN eligible :
         ~PriorityLess(
            CanonicalPriority(eligible[k].best_rating, eligible[k].practice_count,
                              eligible[k].measure),
            CanonicalPriority(resp.best_rating, resp.practice_count, resp.measure))

\* the same with the three-level rank of measure_priority
C14_ReturnsMinimumOfCodeOrder ==
  (Recommended /\ resp.has_stats) =>
    LET eligible == eligible_measures(resp.song_id)
    IN \A k \in DOMAIN eligible :
         ~PriorityLess(
            measure_priority(eligible[k]),
            <<category_score(resp.category), resp.practice_count, resp.measure>>)

\* ----------------------------------------------------------------- C15
\* values of the random draw r, in hundredths, on both sides of each threshold
Draws == {0, 14, 15, 44, 45, 99}

\* C15: with one draw r in [0,1), when r < 0.15 and some eligible candidate is
\* proficient a proficient candidate is returned; otherwise when r < 0.45 and
\* some candidate is decent a decent candidate is returned; otherwise the
\* deterministic minimum is returned; and the answer is a function of r and the
\* catalog.
C15_ReviewBucketsSampled ==
  (Recommended /\ resp.has_stats) =>
    LET eligible == eligible_measures(resp.song_id)
        has_proficient == \E k \in DOMAIN eligible : eligible[k].best_rating >= 3
        has_decent == \E k \in DOMAIN eligible : eligible[k].best_rating = 2
    IN \A r \in Draws :
         /\ IF r < 15 /\ has_proficient THEN resp.best_rating >= 3
            ELSE IF r < 45 /\ has_decent THEN resp.best_rating = 2
            ELSE resp.measure = MinByPriority(eligible).measure
         /\ resp = NextMeasureResponse(resp.song_id)

\* ----------------------------------------------------------------- C16
\* C16: a practice stored by log_practice under song A never changes what
\* next_measure answers for a different song B.
C16_OtherSongsUnaffected ==
  [][(resp'.op = "log_practice" /\ resp'.status = 201) =>
       \A b \in DOMAIN songs \ {resp'.song_id} :
         NextMeasureResponse(b)' = NextMeasureResponse(b)]_vars

\* the same for practices stored against a measure group of song A itself
C16_OwnGroupsLeaveOtherSongs ==
  [][(/\ resp'.op = "log_practice" /\ resp'.status = 201
      /\ practice_sessions'[Len(practice_sessions')].measure_group_id
            \in Items(resp'.song_id)) =>
       \A b \in DOMAIN songs \ {resp'.song_id} :
         NextMeasureResponse(b)' = NextMeasureResponse(b)]_vars

====
